---- MODULE Spec2Model ----
(***************************************************************************)
(* Toy Robot Simulator: the grid-bounded robot (backend/app/models/        *)
(* robot.py) and the RobotService facade that owns the single shared robot *)
(* (backend/app/services/robot_service.py).                                *)
(*                                                                         *)
(* Python's Optional values are modelled as sequences of length at most    *)
(* one: None is <<>> and a value v is <<v>>.  Command names are sequences  *)
(* of one-character strings so that str.upper() is computed, not assumed.  *)
(***************************************************************************)
EXTENDS Integers, Sequences, FiniteSets, TLC

VARIABLES x, y, facing, op, ret, prev, rot, called, sinceReset, run, settings,
          loop, cls, table, middleware, moves

vars == <<x, y, facing, op, ret, prev, rot, called, sinceReset, run, settings,
          loop, cls, table, middleware, moves>>

----------------------------------------------------------------------------
(* Bounds of the model.                                                    *)

\* place() is tried with coordinates from -CoordSlack to 4 + CoordSlack.
CoordSlack == 1

\* Longest run of consecutive rotations that rot keeps track of.
MaxRot == 5

\* The number of requests in flight at the HTTP server.
MaxRequests == 2

\* The number of handles on RobotService that callers take, and the number
\* of Robot objects that are created.
MaxHandles == 2

MaxRobots == 2

\* Longest run of consecutive moves that moves keeps track of.
MaxMoves == 6

\* Requests that reach RequestIDMiddleware, and seconds that time.time()
\* advances while they are handled.
MaxDispatches == 3
MaxTime == 2

\* Settings.TABLE_WIDTH and Settings.TABLE_HEIGHT are tried from their
\* defaults less SizeSlack to their defaults plus SizeSlack.
SizeSlack == 1

----------------------------------------------------------------------------
(* Values.                                                                 *)

None == <<>>

Some(v) == <<v>>

Val(o) == o[1]

\* The largest coordinate of the table, as written in Robot.place and
\* Robot.move.
MaxCoord == 4

\* Direction = Literal['NORTH', 'SOUTH', 'EAST', 'WEST']
Direction == {"NORTH", "SOUTH", "EAST", "WEST"}

\* The list `directions` of Robot.left and Robot.right (Python index i is
\* directions[i + 1] here).
directions == <<"NORTH", "EAST", "SOUTH", "WEST">>

directions_index(f) == CHOOSE i \in 0..3 : directions[i + 1] = f

min(a, b) == IF a <= b THEN a ELSE b

max(a, b) == IF a >= b THEN a ELSE b

----------------------------------------------------------------------------
(* The Robot class.  A robot is a record of its three fields.              *)

Robot_init == [x |-> None, y |-> None, facing |-> None]

Robot_is_placed(r) == r.x # None /\ r.y # None /\ r.facing # None

\* Variants of Robot.place: a rejected placement takes the robot off the table;
\* the upper bound of x is exclusive.
Robot_place_clearing(r, px, py, pf) ==
    IF 0 <= px /\ px <= MaxCoord /\ 0 <= py /\ py <= MaxCoord /\ pf \in Direction
    THEN [robot |-> [x |-> Some(px), y |-> Some(py), facing |-> Some(pf)],
          ret |-> TRUE]
    ELSE [robot |-> Robot_init, ret |-> FALSE]

Robot_place_exclusive(r, px, py, pf) ==
    IF 0 <= px /\ px < MaxCoord /\ 0 <= py /\ py <= MaxCoord /\ pf \in Direction
    THEN [robot |-> [x |-> Some(px), y |-> Some(py), facing |-> Some(pf)],
          ret |-> TRUE]
    ELSE [robot |-> r, ret |-> FALSE]

\* Variant of Robot.place: coordinates off the table are clamped onto it.
Robot_place_clamping(r, px, py, pf) ==
    IF pf \in Direction
    THEN [robot |-> [x |-> Some(max(0, min(px, MaxCoord))),
                     y |-> Some(max(0, min(py, MaxCoord))),
                     facing |-> Some(pf)],
          ret |-> 0 <= px /\ px <= MaxCoord /\ 0 <= py /\ py <= MaxCoord]
    ELSE [robot |-> r, ret |-> FALSE]

\* Robot.place: the new robot and the returned boolean.
Robot_place(r, px, py, pf) ==
    IF 0 <= px /\ px <= MaxCoord /\ 0 <= py /\ py <= MaxCoord /\ pf \in Direction
    THEN [robot |-> [x |-> Some(px), y |-> Some(py), facing |-> Some(pf)],
          ret |-> TRUE]
    ELSE [robot |-> r, ret |-> FALSE]

\* Variants of Robot.move: no clamping; wrapping around the table; NORTH and
\* SOUTH exchanged.
Robot_move_unclamped(r) ==
    IF ~Robot_is_placed(r) THEN r
    ELSE IF r.facing = Some("NORTH") THEN [r EXCEPT !.y = Some(Val(r.y) + 1)]
    ELSE IF r.facing = Some("SOUTH") THEN [r EXCEPT !.y = Some(Val(r.y) - 1)]
    ELSE IF r.facing = Some("EAST") THEN [r EXCEPT !.x = Some(Val(r.x) + 1)]
    ELSE IF r.facing = Some("WEST") THEN [r EXCEPT !.x = Some(Val(r.x) - 1)]
    ELSE r

Robot_move_wrapping(r) ==
    IF ~Robot_is_placed(r) THEN r
    ELSE IF r.facing = Some("NORTH")
         THEN [r EXCEPT !.y = Some((Val(r.y) + 1) % (MaxCoord + 1))]
    ELSE IF r.facing = Some("SOUTH")
         THEN [r EXCEPT !.y = Some((Val(r.y) - 1) % (MaxCoord + 1))]
    ELSE IF r.facing = Some("EAST")
         THEN [r EXCEPT !.x = Some((Val(r.x) + 1) % (MaxCoord + 1))]
    ELSE IF r.facing = Some("WEST")
         THEN [r EXCEPT !.x = Some((Val(r.x) - 1) % (MaxCoord + 1))]
    ELSE r

Robot_move_swapped(r) ==
    IF ~Robot_is_placed(r) THEN r
    ELSE IF r.facing = Some("SOUTH")
         THEN [r EXCEPT !.y = Some(min(Val(r.y) + 1, MaxCoord))]
    ELSE IF r.facing = Some("NORTH")
         THEN [r EXCEPT !.y = Some(max(Val(r.y) - 1, 0))]
    ELSE IF r.facing = Some("EAST")
         THEN [r EXCEPT !.x = Some(min(Val(r.x) + 1, MaxCoord))]
    ELSE IF r.facing = Some("WEST")
         THEN [r EXCEPT !.x = Some(max(Val(r.x) - 1, 0))]
    ELSE r

Robot_move(r) ==
    IF ~Robot_is_placed(r) THEN r
    ELSE IF r.facing = Some("NORTH")
         THEN [r EXCEPT !.y = Some(min(Val(r.y) + 1, MaxCoord))]
    ELSE IF r.facing = Some("SOUTH")
         THEN [r EXCEPT !.y = Some(max(Val(r.y) - 1, 0))]
    ELSE IF r.facing = Some("EAST")
         THEN [r EXCEPT !.x = Some(min(Val(r.x) + 1, MaxCoord))]
    ELSE IF r.facing = Some("WEST")
         THEN [r EXCEPT !.x = Some(max(Val(r.x) - 1, 0))]
    ELSE r

\* Variants of Robot.left: the index is clamped at 0 instead of wrapping; the
\* turn goes clockwise; the turn is followed by a step forward.
Robot_left_clamped(r) ==
    IF ~Robot_is_placed(r) THEN r
    ELSE [r EXCEPT !.facing =
            Some(directions[max(directions_index(Val(r.facing)) - 1, 0) + 1])]

Robot_left_clockwise(r) ==
    IF ~Robot_is_placed(r) THEN r
    ELSE [r EXCEPT !.facing =
            Some(directions[((directions_index(Val(r.facing)) + 1) % 4) + 1])]

Robot_left_stepping(r) ==
    IF ~Robot_is_placed(r) THEN r
    ELSE Robot_move([r EXCEPT !.facing =
            Some(directions[((directions_index(Val(r.facing)) - 1) % 4) + 1])])

\* Variant of Robot.left: a robot that is not placed turns as if it faced
\* NORTH.
Robot_left_defaulting(r) ==
    IF ~Robot_is_placed(r) THEN [r EXCEPT !.facing = Some("WEST")]
    ELSE [r EXCEPT !.facing =
            Some(directions[((directions_index(Val(r.facing)) - 1) % 4) + 1])]

Robot_left(r) ==
    IF ~Robot_is_placed(r) THEN r
    ELSE [r EXCEPT !.facing =
            Some(directions[((directions_index(Val(r.facing)) - 1) % 4) + 1])]

\* Variant of Robot.right: a half turn.
Robot_right_half_turn(r) ==
    IF ~Robot_is_placed(r) THEN r
    ELSE [r EXCEPT !.facing =
            Some(directions[((directions_index(Val(r.facing)) + 2) % 4) + 1])]

Robot_right(r) ==
    IF ~Robot_is_placed(r) THEN r
    ELSE [r EXCEPT !.facing =
            Some(directions[((directions_index(Val(r.facing)) + 1) % 4) + 1])]

\* str(n) for the integers a coordinate can hold.
DigitStr == <<"0", "1", "2", "3", "4", "5", "6", "7", "8", "9">>

int_str(n) == DigitStr[n + 1]

\* Variants of Robot.report: a space after each comma; "0,0,NORTH" for a robot
\* that is not placed.
Robot_report_spaced(r) ==
    IF Robot_is_placed(r)
    THEN Some(<<int_str(Val(r.x)), ", ", int_str(Val(r.y)), ", ", Val(r.facing)>>)
    ELSE None

Robot_report_placeholder(r) ==
    IF Robot_is_placed(r)
    THEN Some(<<int_str(Val(r.x)), ",", int_str(Val(r.y)), ",", Val(r.facing)>>)
    ELSE Some(<<"0", ",", "0", ",", "NORTH">>)

\* Robot.report: f"{x},{y},{facing}" as the sequence of its pieces, or None.
Robot_report(r) ==
    IF Robot_is_placed(r)
    THEN Some(<<int_str(Val(r.x)), ",", int_str(Val(r.y)), ",", Val(r.facing)>>)
    ELSE None

\* Variant of Robot.to_dict: x and y exchanged.
Robot_to_dict_transposed(r) ==
    [x |-> r.y, y |-> r.x, facing |-> r.facing, is_placed |-> Robot_is_placed(r)]

Robot_to_dict(r) ==
    [x |-> r.x, y |-> r.y, facing |-> r.facing, is_placed |-> Robot_is_placed(r)]

----------------------------------------------------------------------------
(* str.upper() on command names.                                           *)

LowerCase == <<"a", "b", "c", "d", "e", "f", "g", "h", "i", "j", "k", "l", "m",
               "n", "o", "p", "q", "r", "s", "t", "u", "v", "w", "x", "y", "z">>

UpperCase == <<"A", "B", "C", "D", "E", "F", "G", "H", "I", "J", "K", "L", "M",
               "N", "O", "P", "Q", "R", "S", "T", "U", "V", "W", "X", "Y", "Z">>

upper_char(c) ==
    IF \E i \in 1..26 : LowerCase[i] = c
    THEN UpperCase[CHOOSE i \in 1..26 : LowerCase[i] = c]
    ELSE c

\* Variant of str.upper(): only the first character is converted.
upper_first_only(s) ==
    [i \in 1..Len(s) |-> IF i = 1 THEN upper_char(s[i]) ELSE s[i]]

upper(s) == [i \in 1..Len(s) |-> upper_char(s[i])]

MOVE == <<"M", "O", "V", "E">>

LEFT == <<"L", "E", "F", "T">>

RIGHT == <<"R", "I", "G", "H", "T">>

REPORT == <<"R", "E", "P", "O", "R", "T">>

----------------------------------------------------------------------------
(* Inputs.                                                                 *)

CoordInputs == (0 - CoordSlack)..(MaxCoord + CoordSlack)

\* place() compares facing with the four names exactly: "north" is none of them.
FacingInputs == Direction \cup {"north"}

CommandInputs ==
    {MOVE, LEFT, RIGHT, REPORT,
     <<"m", "o", "v", "e">>, <<"L", "e", "f", "t">>, <<"r", "i", "g", "h", "t">>,
     <<"r", "e", "p", "o", "r", "t">>,
     <<"J", "U", "M", "P">>, <<"j", "u", "m", "p">>, <<>>}

----------------------------------------------------------------------------
(* State.  x, y, facing are the fields of RobotService._robot.  op is the  *)
(* last call and its arguments, ret what it returned or raised, prev the   *)
(* robot before that call, rot the current run of consecutive rotations,   *)
(* called the RobotService methods invoked during that call, in order.     *)
(* sinceReset.after tells that reset() has been called and no place() has  *)
(* succeeded since; sinceReset.before is its value when the last call      *)
(* began.  run.steps is the longest suffix of the calls made so far that   *)
(* begins one of the three example scenarios, and run.from the robot       *)
(* before the first of them.  settings holds Settings.TABLE_WIDTH and      *)
(* Settings.TABLE_HEIGHT.  loop is the event loop of the HTTP server: the  *)
(* requests in flight and the one that is running.  cls holds the class    *)
(* attributes _instance and _robot of RobotService, as object identities,  *)
(* and the handles that callers hold.  table is the robot of the Table of  *)
(* the command-line simulator when it runs beside the service.  middleware *)
(* is the RequestIDMiddleware: its counter, the clock, and the requests it *)
(* is dispatching.  moves is the current run of consecutive moves.         *)
(*                                                                         *)
(* op, ret, prev and called describe one call.  The caller reads them and  *)
(* then drops them (Forget) before it makes its next call, so that the     *)
(* calls are tried once from every state of the robot instead of once from *)
(* every record of an earlier call.                                        *)

robot == [x |-> x, y |-> y, facing |-> facing]

Returned(v) == [raised |-> FALSE, value |-> v]

Raised(e, msg) == [raised |-> TRUE, value |-> <<e, msg>>]

NoRot(r) == [start |-> r, lefts |-> 0, rights |-> 0]

\* TABLE_WIDTH: int = 5 and TABLE_HEIGHT: int = 5 of class Settings.
Settings_TABLE_WIDTH == 5

Settings_TABLE_HEIGHT == 5

Settings ==
    [TABLE_WIDTH |-> Settings_TABLE_WIDTH, TABLE_HEIGHT |-> Settings_TABLE_HEIGHT]

SizeInputs ==
    (Settings_TABLE_WIDTH - SizeSlack)..(Settings_TABLE_WIDTH + SizeSlack)

NoRun == [from |-> Robot_init, steps |-> <<>>]

NoLoop == [tasks |-> <<>>, running |-> 0]

\* The class attributes of RobotService before the first construction, and
\* after it: the first RobotService object, the first Robot object, and the
\* handle that routes.py takes with RobotService.get_instance().
Unconstructed ==
    [instance |-> None, robot |-> None, objects |-> 0, robots |-> 0,
     handles |-> <<>>]

Constructed ==
    [instance |-> Some(1), robot |-> Some(1), objects |-> 1, robots |-> 1,
     handles |-> <<1>>]

\* RequestIDMiddleware.__init__: self._request_counter = 0.
NoRequests == [request_counter |-> 0, time |-> 0, tasks |-> <<>>, running |-> 0]

NoMoves(r) == [start |-> r, count |-> 0]

Init ==
    /\ x = None
    /\ y = None
    /\ facing = None
    /\ op = [name |-> "init", args |-> <<>>]
    /\ ret = Returned(None)
    /\ prev = Robot_init
    /\ rot = NoRot(Robot_init)
    /\ called = <<>>
    /\ sinceReset = [before |-> FALSE, after |-> FALSE]
    /\ run = NoRun
    /\ settings = Settings
    /\ loop = NoLoop
    /\ cls = Constructed
    /\ table = Robot_init
    /\ middleware = NoRequests
    /\ moves = NoMoves(Robot_init)

\* The calls that are a reset(), and those that are a place() that succeeded.
IsReset(name) == name \in {"reset", "POST /api/robot/reset"}

PlaceSucceeded(name, result) ==
    \/ name = "place" /\ result = Returned(TRUE)
    \/ name = "POST /api/robot/place" /\ result.status = 200

SinceReset(name, result) ==
    [before |-> sinceReset.after,
     after |-> IF IsReset(name) THEN TRUE
               ELSE IF PlaceSucceeded(name, result) THEN FALSE
               ELSE sinceReset.after]

PLACE == <<"P", "L", "A", "C", "E">>

\* A step of a scenario: a command and, for PLACE, its arguments.
Step(cmd, args) == [cmd |-> cmd, args |-> args]

\* Examples A, B and C of the requirements, as the tests run them.
ExampleA == <<Step(PLACE, <<0, 0, "NORTH">>), Step(MOVE, <<>>), Step(REPORT, <<>>)>>

ExampleB == <<Step(PLACE, <<0, 0, "NORTH">>), Step(LEFT, <<>>), Step(REPORT, <<>>)>>

ExampleC ==
    <<Step(PLACE, <<1, 2, "EAST">>), Step(MOVE, <<>>), Step(MOVE, <<>>),
      Step(LEFT, <<>>), Step(MOVE, <<>>), Step(REPORT, <<>>)>>

Examples == {ExampleA, ExampleB, ExampleC}

\* The scenario step that a call is.
Token(name, args) ==
    IF name \in {"place", "POST /api/robot/place"} THEN Step(PLACE, args)
    ELSE IF name = "move" THEN Step(MOVE, <<>>)
    ELSE IF name = "left" THEN Step(LEFT, <<>>)
    ELSE IF name = "right" THEN Step(RIGHT, <<>>)
    ELSE IF name = "report" THEN Step(REPORT, <<>>)
    ELSE IF name = "execute_command" THEN Step(upper(args[1]), <<>>)
    ELSE IF name = "POST /api/robot/command" THEN Step(args[1], <<>>)
    ELSE Step(<<>>, <<>>)

IsPrefix(p, s) == Len(p) <= Len(s) /\ SubSeq(s, 1, Len(p)) = p

\* run after the call name(args).
Run(name, args) ==
    LET t == Token(name, args)
        more == Append(run.steps, t)
    IN  IF \E e \in Examples : IsPrefix(more, e)
        THEN [from |-> IF run.steps = <<>> THEN robot ELSE run.from,
              steps |-> more]
        ELSE IF \E e \in Examples : IsPrefix(<<t>>, e)
        THEN [from |-> robot, steps |-> <<t>>]
        ELSE NoRun

\* No call is on record: none was made yet, or the last one was dropped.
Idle == op.name = "init"

\* The caller drops the record of its last call.
Forget ==
    /\ ~Idle
    /\ op' = [name |-> "init", args |-> <<>>]
    /\ ret' = Returned(None)
    /\ prev' = robot
    /\ called' = <<>>
    /\ sinceReset' = [before |-> sinceReset.after, after |-> sinceReset.after]
    /\ UNCHANGED <<x, y, facing, rot, run, settings, loop>>
    /\ UNCHANGED <<cls, table, middleware, moves>>

\* The robot becomes r; bookkeeping of a RobotService call that is not a
\* rotation.
Becomes(r, name, args, result) ==
    /\ Idle
    /\ x' = r.x
    /\ y' = r.y
    /\ facing' = r.facing
    /\ op' = [name |-> name, args |-> args]
    /\ ret' = result
    /\ prev' = robot
    /\ rot' = NoRot(r)
    /\ called' = <<name>>
    /\ sinceReset' = SinceReset(name, result)
    /\ run' = Run(name, args)
    /\ UNCHANGED <<settings, loop, cls, table, middleware, moves>>

\* The same for a rotation, which extends the current run.
RotBecomes(r, name, args, result, dl, dr) ==
    /\ Idle
    /\ x' = r.x
    /\ y' = r.y
    /\ facing' = r.facing
    /\ op' = [name |-> name, args |-> args]
    /\ ret' = result
    /\ prev' = robot
    /\ rot' = IF rot.lefts + rot.rights >= MaxRot
              THEN [start |-> robot, lefts |-> dl, rights |-> dr]
              ELSE [rot EXCEPT !.lefts = @ + dl, !.rights = @ + dr]
    /\ called' = <<name>>
    /\ sinceReset' = SinceReset(name, result)
    /\ run' = Run(name, args)
    /\ UNCHANGED <<settings, loop, cls, table, middleware, moves>>

----------------------------------------------------------------------------
(* The RobotService methods.                                               *)

RobotService_place ==
    \E px \in CoordInputs, py \in CoordInputs, pf \in FacingInputs :
        LET res == Robot_place(robot, px, py, pf)
        IN  Becomes(res.robot, "place", <<px, py, pf>>, Returned(res.ret))

RobotService_move == Becomes(Robot_move(robot), "move", <<>>, Returned(None))

RobotService_left ==
    RotBecomes(Robot_left(robot), "left", <<>>, Returned(None), 1, 0)

RobotService_right ==
    RotBecomes(Robot_right(robot), "right", <<>>, Returned(None), 0, 1)

RobotService_report ==
    Becomes(robot, "report", <<>>, Returned(Robot_report(robot)))

\* Variant of RobotService.get_position: the pair is (y, x).
get_position_transposed(r) ==
    IF Robot_is_placed(r) THEN Some(<<Val(r.y), Val(r.x)>>) ELSE None

\* RobotService.get_position: the tuple (x, y) if the robot is placed.
get_position(r) ==
    IF Robot_is_placed(r) THEN Some(<<Val(r.x), Val(r.y)>>) ELSE None

\* RobotService.get_facing: the facing attribute, whatever it holds.
get_facing(r) == r.facing

RobotService_get_position ==
    Becomes(robot, "get_position", <<>>, Returned(get_position(robot)))

RobotService_get_facing ==
    Becomes(robot, "get_facing", <<>>, Returned(get_facing(robot)))

\* Variant of RobotService.execute_command: MOVE, LEFT and RIGHT are refused
\* while the robot is not placed.
execute_command_guarding(r, c) ==
    LET command == upper(c)
    IN  IF command \in {MOVE, LEFT, RIGHT} /\ ~Robot_is_placed(r)
        THEN [robot |-> r, ret |-> Raised("NotPlaced", <<"Robot is not placed">>),
              dl |-> 0, dr |-> 0]
        ELSE IF command = MOVE
        THEN [robot |-> Robot_move(r), ret |-> Returned(None), dl |-> 0, dr |-> 0]
        ELSE IF command = LEFT
        THEN [robot |-> Robot_left(r), ret |-> Returned(None), dl |-> 1, dr |-> 0]
        ELSE IF command = RIGHT
        THEN [robot |-> Robot_right(r), ret |-> Returned(None), dl |-> 0, dr |-> 1]
        ELSE IF command = REPORT
        THEN [robot |-> r, ret |-> Returned(Robot_report(r)), dl |-> 0, dr |-> 0]
        ELSE [robot |-> r,
              ret |-> Raised("ValueError", <<"Unknown command: ", command>>),
              dl |-> 0, dr |-> 0]

\* RobotService.execute_command on the robot r: the new robot, what the call
\* returns or raises, and the left and right turns it made.
execute_command(r, c) ==
    LET command == upper(c)
    IN  IF command = MOVE
        THEN [robot |-> Robot_move(r), ret |-> Returned(None), dl |-> 0, dr |-> 0]
        ELSE IF command = LEFT
        THEN [robot |-> Robot_left(r), ret |-> Returned(None), dl |-> 1, dr |-> 0]
        ELSE IF command = RIGHT
        THEN [robot |-> Robot_right(r), ret |-> Returned(None), dl |-> 0, dr |-> 1]
        ELSE IF command = REPORT
        THEN [robot |-> r, ret |-> Returned(Robot_report(r)), dl |-> 0, dr |-> 0]
        ELSE [robot |-> r,
              ret |-> Raised("ValueError", <<"Unknown command: ", command>>),
              dl |-> 0, dr |-> 0]

RobotService_execute_command ==
    \E c \in CommandInputs :
        LET res == execute_command(robot, c)
        IN  IF res.dl + res.dr > 0
            THEN RotBecomes(res.robot, "execute_command", <<c>>, res.ret,
                            res.dl, res.dr)
            ELSE Becomes(res.robot, "execute_command", <<c>>, res.ret)

RobotService_get_state ==
    Becomes(robot, "get_state", <<>>, Returned(Robot_to_dict(robot)))

\* Variants of RobotService.reset: the facing is not cleared; only the facing is
\* cleared.
RobotService_reset_position_only ==
    Becomes([x |-> None, y |-> None, facing |-> facing], "reset", <<>>,
            Returned(None))

RobotService_reset_facing_only ==
    Becomes([x |-> x, y |-> y, facing |-> None], "reset", <<>>,
            Returned(None))

\* RobotService.reset clears the three fields of the shared robot.
RobotService_reset ==
    Becomes([x |-> None, y |-> None, facing |-> None], "reset", <<>>,
            Returned(None))

\* RobotService.reset_singleton: the instance exists, the robot is replaced.
RobotService_reset_singleton ==
    Becomes(Robot_init, "reset_singleton", <<>>, Returned(None))

Next ==
    \/ RobotService_place
    \/ RobotService_move
    \/ RobotService_left
    \/ RobotService_right
    \/ RobotService_report
    \/ RobotService_execute_command
    \/ RobotService_get_state
    \/ RobotService_get_position
    \/ RobotService_get_facing
    \/ RobotService_reset
    \/ RobotService_reset_singleton
    \/ Forget

Spec == Init /\ [][Next]_vars

----------------------------------------------------------------------------
(* The HTTP routes (backend/app/api/routes.py), each request handled from  *)
(* validation to response in one step.  A response is its status code and  *)
(* its JSON body; a message is the sequence of the pieces of its f-string. *)

\* Field(..., ge=0, le=4) of PlaceRequest.x and PlaceRequest.y.
PlaceRequestMax == 4

\* Command = Literal['MOVE', 'LEFT', 'RIGHT', 'REPORT']
Command == {MOVE, LEFT, RIGHT, REPORT}

\* Variant of PlaceRequest: le is one more than the largest coordinate.
PlaceRequest_valid_wide(px, py, pf) ==
    /\ 0 <= px /\ px <= PlaceRequestMax + 1
    /\ 0 <= py /\ py <= PlaceRequestMax + 1
    /\ pf \in Direction

PlaceRequest_valid(px, py, pf) ==
    /\ 0 <= px /\ px <= PlaceRequestMax
    /\ 0 <= py /\ py <= PlaceRequestMax
    /\ pf \in Direction

CommandRequest_valid(c) == c \in Command

\* validation_exception_handler
validation_exception_handler(path) ==
    [status |-> 422,
     body |-> [error |-> "Validation error",
               details |-> [error_type |-> "validation_error"],
               path |-> path]]

\* robot_exception_handler applied to a RobotException.
robot_exception_handler(path, message, details) ==
    [status |-> 400,
     body |-> [error |-> message, details |-> details, path |-> path]]

RobotStateResponse(state, message) ==
    [status |-> 200,
     body |-> [x |-> state.x, y |-> state.y, facing |-> state.facing,
               is_placed |-> state.is_placed, message |-> message]]

\* str() of an Optional coordinate, and of an Optional facing, inside an
\* f-string.
coord_str(o) == IF o = None THEN "None" ELSE int_str(Val(o))

facing_str(o) == IF o = None THEN "None" ELSE Val(o)

\* place_robot on the robot r, for a request that passed validation.
routes_place_robot(r, px, py, pf) ==
    LET res == Robot_place(r, px, py, pf)
    IN  IF ~res.ret
        THEN [robot |-> res.robot,
              response |-> robot_exception_handler("/api/robot/place",
                  <<"Cannot place robot at position (", int_str(px), ", ",
                    int_str(py), ") facing ", pf>>,
                  [error_type |-> "invalid_placement", x |-> px, y |-> py]),
              calls |-> <<"place">>]
        ELSE [robot |-> res.robot,
              response |-> RobotStateResponse(Robot_to_dict(res.robot),
                  <<"Robot placed at (", int_str(px), ", ", int_str(py),
                    ") facing ", pf>>),
              calls |-> <<"place", "get_state">>]

\* The message of execute_command's response.
command_message(c, report_output, state) ==
    IF c = REPORT
    THEN IF report_output # None
         THEN <<"Report: ", Val(report_output)>>
         ELSE <<"Robot has not been placed on the table">>
    ELSE IF c = MOVE
    THEN <<"Robot moved to (", coord_str(state.x), ", ", coord_str(state.y), ")">>
    ELSE IF c \in {LEFT, RIGHT}
    THEN <<"Robot rotated ", c, ", now facing ", facing_str(state.facing)>>
    ELSE <<"Command ", c, " executed">>

\* Variant of execute_command (routes): the placement check is left to the
\* service.
routes_execute_command_unguarded(r, c) ==
    LET res == execute_command(r, c)
    IN  [robot |-> res.robot,
         response |-> RobotStateResponse(Robot_to_dict(res.robot),
             command_message(c, res.ret.value, Robot_to_dict(res.robot))),
         calls |-> <<"execute_command", "get_state">>,
         dl |-> res.dl, dr |-> res.dr]

\* Variant of execute_command (routes): the state is read before the command
\* is executed.
routes_execute_command_stale(r, c) ==
    IF c # REPORT /\ ~Robot_is_placed(r)
    THEN [robot |-> r,
          response |-> robot_exception_handler("/api/robot/command",
              "Robot has not been placed on the table yet",
              [error_type |-> "robot_not_placed"]),
          calls |-> <<"is_placed">>, dl |-> 0, dr |-> 0]
    ELSE LET res == execute_command(r, c)
         IN  [robot |-> res.robot,
              response |-> RobotStateResponse(Robot_to_dict(r),
                  command_message(c, res.ret.value, Robot_to_dict(r))),
              calls |-> <<"is_placed", "get_state", "execute_command">>,
              dl |-> res.dl, dr |-> res.dr]

\* execute_command (routes) on the robot r, for a request that passed
\* validation.
routes_execute_command(r, c) ==
    IF c # REPORT /\ ~Robot_is_placed(r)
    THEN [robot |-> r,
          response |-> robot_exception_handler("/api/robot/command",
              "Robot has not been placed on the table yet",
              [error_type |-> "robot_not_placed"]),
          calls |-> <<"is_placed">>, dl |-> 0, dr |-> 0]
    ELSE LET res == execute_command(r, c)
             checked == IF c # REPORT THEN <<"is_placed">> ELSE <<>>
         IN  IF res.ret.raised
             THEN [robot |-> res.robot,
                   response |-> robot_exception_handler("/api/robot/command",
                       res.ret.value[2],
                       [error_type |-> "invalid_command", command |-> c]),
                   calls |-> checked \o <<"execute_command">>,
                   dl |-> 0, dr |-> 0]
             ELSE [robot |-> res.robot,
                   response |-> RobotStateResponse(Robot_to_dict(res.robot),
                       command_message(c, res.ret.value,
                                       Robot_to_dict(res.robot))),
                   calls |-> checked \o <<"execute_command", "get_state">>,
                   dl |-> res.dl, dr |-> res.dr]

\* Bookkeeping of a request: the robot becomes r.
Responds(r, name, args, response, calls, dl, dr) ==
    /\ Idle
    /\ x' = r.x
    /\ y' = r.y
    /\ facing' = r.facing
    /\ op' = [name |-> name, args |-> args]
    /\ ret' = response
    /\ prev' = robot
    /\ rot' = IF dl + dr = 0 THEN NoRot(r)
              ELSE IF rot.lefts + rot.rights >= MaxRot
              THEN [start |-> robot, lefts |-> dl, rights |-> dr]
              ELSE [rot EXCEPT !.lefts = @ + dl, !.rights = @ + dr]
    /\ called' = calls
    /\ sinceReset' = SinceReset(name, response)
    /\ run' = Run(name, args)
    /\ UNCHANGED <<settings, loop, cls, table, middleware, moves>>

POST_robot_place ==
    \E px \in CoordInputs, py \in CoordInputs, pf \in FacingInputs :
        IF ~PlaceRequest_valid(px, py, pf)
        THEN Responds(robot, "POST /api/robot/place", <<px, py, pf>>,
                      validation_exception_handler("/api/robot/place"),
                      <<>>, 0, 0)
        ELSE LET res == routes_place_robot(robot, px, py, pf)
             IN  Responds(res.robot, "POST /api/robot/place", <<px, py, pf>>,
                          res.response, res.calls, 0, 0)

POST_robot_command ==
    \E c \in CommandInputs :
        IF ~CommandRequest_valid(c)
        THEN Responds(robot, "POST /api/robot/command", <<c>>,
                      validation_exception_handler("/api/robot/command"),
                      <<>>, 0, 0)
        ELSE LET res == routes_execute_command(robot, c)
             IN  Responds(res.robot, "POST /api/robot/command", <<c>>,
                          res.response, res.calls, res.dl, res.dr)

GET_robot_state ==
    LET state == Robot_to_dict(robot)
    IN  Responds(robot, "GET /api/robot/state", <<>>,
                 RobotStateResponse(state,
                     IF state.is_placed
                     THEN <<"Robot is at (", coord_str(state.x), ", ",
                            coord_str(state.y), ") facing ", facing_str(state.facing)>>
                     ELSE <<"Robot has not been placed on the table">>),
                 <<"get_state">>, 0, 0)

POST_robot_reset ==
    Responds(Robot_init, "POST /api/robot/reset", <<>>,
             RobotStateResponse(Robot_to_dict(Robot_init),
                                <<"Robot has been reset">>),
             <<"reset", "get_state">>, 0, 0)

NextHttp ==
    \/ POST_robot_place
    \/ POST_robot_command
    \/ GET_robot_state
    \/ POST_robot_reset
    \/ Forget

SpecHttp == Init /\ [][NextHttp]_vars

----------------------------------------------------------------------------
(* Requests in flight.  Every route is an `async def` coroutine run by the  *)
(* one event loop that uvicorn.run starts.  A request is a task; the loop  *)
(* resumes one task at a time and the task runs until it awaits or ends.   *)
(* The middleware awaits call_next; the route handlers await nothing.      *)
(* Robot.place and RobotService.reset write their fields one statement at  *)
(* a time.                                                                 *)

RequestInputs ==
    {[name |-> "POST /api/robot/place", args |-> <<1, 2, "EAST">>],
     [name |-> "POST /api/robot/place", args |-> <<0, MaxCoord, "NORTH">>],
     [name |-> "POST /api/robot/place", args |-> <<MaxCoord + 1, 0, "NORTH">>],
     [name |-> "POST /api/robot/command", args |-> <<MOVE>>],
     [name |-> "POST /api/robot/command", args |-> <<LEFT>>],
     [name |-> "POST /api/robot/command", args |-> <<REPORT>>],
     [name |-> "GET /api/robot/state", args |-> <<>>],
     [name |-> "POST /api/robot/reset", args |-> <<>>]}

\* The response of a task that has not answered yet.
NoResponse == [status |-> 0, body |-> [error |-> "none"]]

\* get_robot_state and reset_robot on the robot r.
routes_get_robot_state(r) ==
    LET state == Robot_to_dict(r)
    IN  [robot |-> r,
         response |-> RobotStateResponse(state,
             IF state.is_placed
             THEN <<"Robot is at (", coord_str(state.x), ", ",
                    coord_str(state.y), ") facing ", facing_str(state.facing)>>
             ELSE <<"Robot has not been placed on the table">>)]

routes_reset_robot(r) ==
    [robot |-> Robot_init,
     response |-> RobotStateResponse(Robot_to_dict(Robot_init),
                                     <<"Robot has been reset">>)]

\* A whole request on the robot r, from validation to response.
Handle(r, request) ==
    IF request.name = "POST /api/robot/place"
    THEN IF ~PlaceRequest_valid(request.args[1], request.args[2], request.args[3])
         THEN [robot |-> r,
               response |-> validation_exception_handler("/api/robot/place")]
         ELSE LET res == routes_place_robot(r, request.args[1], request.args[2],
                                            request.args[3])
              IN  [robot |-> res.robot, response |-> res.response]
    ELSE IF request.name = "POST /api/robot/command"
    THEN IF ~CommandRequest_valid(request.args[1])
         THEN [robot |-> r,
               response |-> validation_exception_handler("/api/robot/command")]
         ELSE LET res == routes_execute_command(r, request.args[1])
              IN  [robot |-> res.robot, response |-> res.response]
    ELSE IF request.name = "GET /api/robot/state"
    THEN routes_get_robot_state(r)
    ELSE routes_reset_robot(r)

\* Variant of Awaits: the running task gives way after every statement, as a
\* thread does.
Awaits_everywhere(pc) == TRUE

\* The statements at which a task awaits: `await call_next(request)` of the
\* middleware.
Awaits(pc) == pc = "call_next"

Task(i) == loop.tasks[i]

\* The request arrives and its task is created.
Accept ==
    \E request \in RequestInputs :
        /\ Len(loop.tasks) < MaxRequests
        /\ loop' = [loop EXCEPT !.tasks =
               Append(@, [request |-> request, pc |-> "dispatch",
                          placed |-> FALSE, output |-> None,
                          response |-> NoResponse])]
        /\ UNCHANGED <<x, y, facing, op, ret, prev, rot, called, sinceReset, run,
                       settings, cls, table, middleware, moves>>

\* The event loop, with no task running, resumes the task i.
Resume ==
    \E i \in 1..Len(loop.tasks) :
        /\ loop.running = 0
        /\ Task(i).pc # "done"
        /\ loop' = [loop EXCEPT !.running = i]
        /\ UNCHANGED <<x, y, facing, op, ret, prev, rot, called, sinceReset, run,
                       settings, cls, table, middleware, moves>>

\* The running task i has executed a statement at which its position was pc:
\* its record becomes t, the robot r, and it gives way if the statement awaits
\* or was its last.
Executes(i, pc, t, r) ==
    /\ loop' = [tasks |-> [loop.tasks EXCEPT ![i] = t],
                running |-> IF Awaits(pc) \/ t.pc = "done" THEN 0 ELSE i]
    /\ x' = r.x
    /\ y' = r.y
    /\ facing' = r.facing
    /\ UNCHANGED <<op, ret, prev, rot, called, sinceReset, run, settings>>
    /\ UNCHANGED <<cls, table, middleware, moves>>

\* RequestIDMiddleware.dispatch and RequestLoggingMiddleware.dispatch up to
\* their `await call_next(request)`.
Middleware_dispatch ==
    LET i == loop.running
    IN  /\ i # 0
        /\ Task(i).pc = "dispatch"
        /\ Executes(i, "dispatch", [Task(i) EXCEPT !.pc = "call_next"], robot)

\* `response = await call_next(request)`: the task gives way; it goes on with
\* the validation of the request body.
Middleware_call_next ==
    LET i == loop.running
    IN  /\ i # 0
        /\ Task(i).pc = "call_next"
        /\ Executes(i, "call_next", [Task(i) EXCEPT !.pc = "validate"], robot)

\* The request body is validated against PlaceRequest or CommandRequest; a
\* valid request enters its route.
Validate ==
    LET i == loop.running
        t == Task(i)
        request == t.request
    IN  /\ i # 0
        /\ t.pc = "validate"
        /\ IF request.name = "POST /api/robot/place"
           THEN IF PlaceRequest_valid(request.args[1], request.args[2],
                                      request.args[3])
                THEN Executes(i, "validate", [t EXCEPT !.pc = "place"], robot)
                ELSE Executes(i, "validate",
                         [t EXCEPT !.pc = "done", !.response =
                             validation_exception_handler("/api/robot/place")],
                         robot)
           ELSE IF request.name = "POST /api/robot/command"
           THEN IF CommandRequest_valid(request.args[1])
                THEN Executes(i, "validate", [t EXCEPT !.pc = "is_placed"], robot)
                ELSE Executes(i, "validate",
                         [t EXCEPT !.pc = "done", !.response =
                             validation_exception_handler("/api/robot/command")],
                         robot)
           ELSE IF request.name = "GET /api/robot/state"
           THEN Executes(i, "validate", [t EXCEPT !.pc = "get_state"], robot)
           ELSE Executes(i, "validate", [t EXCEPT !.pc = "reset_x"], robot)

\* place_robot calls RobotService.place: the condition of Robot.place, and
\* InvalidPlacementException when it returns False.
Place_condition ==
    LET i == loop.running
        t == Task(i)
        px == t.request.args[1]
        py == t.request.args[2]
        pf == t.request.args[3]
    IN  /\ i # 0
        /\ t.pc = "place"
        /\ IF 0 <= px /\ px <= MaxCoord /\ 0 <= py /\ py <= MaxCoord
                /\ pf \in Direction
           THEN Executes(i, "place", [t EXCEPT !.pc = "place_x"], robot)
           ELSE Executes(i, "place",
                    [t EXCEPT !.pc = "done", !.response =
                        robot_exception_handler("/api/robot/place",
                            <<"Cannot place robot at position (", int_str(px),
                              ", ", int_str(py), ") facing ", pf>>,
                            [error_type |-> "invalid_placement",
                             x |-> px, y |-> py])],
                    robot)

\* self.x = x; self.y = y; self.facing = facing of Robot.place, one statement
\* at a time.
Place_assign ==
    LET i == loop.running
        t == Task(i)
    IN  /\ i # 0
        /\ \/ /\ t.pc = "place_x"
              /\ Executes(i, "place_x", [t EXCEPT !.pc = "place_y"],
                          [robot EXCEPT !.x = Some(t.request.args[1])])
           \/ /\ t.pc = "place_y"
              /\ Executes(i, "place_y", [t EXCEPT !.pc = "place_facing"],
                          [robot EXCEPT !.y = Some(t.request.args[2])])
           \/ /\ t.pc = "place_facing"
              /\ Executes(i, "place_facing", [t EXCEPT !.pc = "get_state"],
                          [robot EXCEPT !.facing = Some(t.request.args[3])])

\* `if request.command != "REPORT" and not robot_service.is_placed()` of
\* execute_command (routes).
Command_is_placed ==
    LET i == loop.running
        t == Task(i)
    IN  /\ i # 0
        /\ t.pc = "is_placed"
        /\ IF t.request.args[1] # REPORT /\ ~Robot_is_placed(robot)
           THEN Executes(i, "is_placed",
                    [t EXCEPT !.pc = "done", !.response =
                        robot_exception_handler("/api/robot/command",
                            "Robot has not been placed on the table yet",
                            [error_type |-> "robot_not_placed"])],
                    robot)
           ELSE Executes(i, "is_placed",
                    [t EXCEPT !.pc = "execute_command",
                              !.placed = Robot_is_placed(robot)],
                    robot)

\* `report_output = robot_service.execute_command(request.command)`.
Command_execute ==
    LET i == loop.running
        t == Task(i)
        res == execute_command(robot, t.request.args[1])
    IN  /\ i # 0
        /\ t.pc = "execute_command"
        /\ IF res.ret.raised
           THEN Executes(i, "execute_command",
                    [t EXCEPT !.pc = "done", !.response =
                        robot_exception_handler("/api/robot/command",
                            res.ret.value[2],
                            [error_type |-> "invalid_command",
                             command |-> t.request.args[1]])],
                    res.robot)
           ELSE Executes(i, "execute_command",
                    [t EXCEPT !.pc = "get_state", !.output = res.ret.value],
                    res.robot)

\* self._robot.x = None; self._robot.y = None; self._robot.facing = None of
\* RobotService.reset, one statement at a time.
Reset_assign ==
    LET i == loop.running
        t == Task(i)
    IN  /\ i # 0
        /\ \/ /\ t.pc = "reset_x"
              /\ Executes(i, "reset_x", [t EXCEPT !.pc = "reset_y"],
                          [robot EXCEPT !.x = None])
           \/ /\ t.pc = "reset_y"
              /\ Executes(i, "reset_y", [t EXCEPT !.pc = "reset_facing"],
                          [robot EXCEPT !.y = None])
           \/ /\ t.pc = "reset_facing"
              /\ Executes(i, "reset_facing", [t EXCEPT !.pc = "get_state"],
                          [robot EXCEPT !.facing = None])

\* `state = robot_service.get_state()` and the RobotStateResponse that each
\* route builds from it.
Get_state_respond ==
    LET i == loop.running
        t == Task(i)
        request == t.request
        state == Robot_to_dict(robot)
        message ==
            IF request.name = "POST /api/robot/place"
            THEN <<"Robot placed at (", int_str(request.args[1]), ", ",
                   int_str(request.args[2]), ") facing ", request.args[3]>>
            ELSE IF request.name = "POST /api/robot/command"
            THEN command_message(request.args[1], t.output, state)
            ELSE IF request.name = "GET /api/robot/state"
            THEN IF state.is_placed
                 THEN <<"Robot is at (", coord_str(state.x), ", ",
                        coord_str(state.y), ") facing ", facing_str(state.facing)>>
                 ELSE <<"Robot has not been placed on the table">>
            ELSE <<"Robot has been reset">>
    IN  /\ i # 0
        /\ t.pc = "get_state"
        /\ Executes(i, "get_state",
               [t EXCEPT !.pc = "done",
                         !.response = RobotStateResponse(state, message)],
               robot)

NextAsync ==
    \/ Accept
    \/ Resume
    \/ Middleware_dispatch
    \/ Middleware_call_next
    \/ Validate
    \/ Place_condition
    \/ Place_assign
    \/ Command_is_placed
    \/ Command_execute
    \/ Reset_assign
    \/ Get_state_respond

SpecAsync == Init /\ [][NextAsync]_vars

----------------------------------------------------------------------------
(* The command-line simulator (src/robot.py): its own Robot class and the  *)
(* Table that parses a command line.  A line is the sequence of its        *)
(* pieces: words, digits, "-", "," and " ".  The robot of the Table is kept *)
(* in x, y and facing.                                                     *)

\* str.split(sep) on a sequence of pieces: the pieces between the separators.
RECURSIVE split_from(_, _, _, _)
split_from(q, sep, k, part) ==
    IF k > Len(q) THEN <<part>>
    ELSE IF q[k] = sep THEN <<part>> \o split_from(q, sep, k + 1, <<>>)
    ELSE split_from(q, sep, k + 1, Append(part, q[k]))

split_sep(q, sep) == split_from(q, sep, 1, <<>>)

\* str.split() without a separator: runs of whitespace separate, and no part
\* is empty.
split(q) == SelectSeq(split_sep(q, " "), LAMBDA part : part # <<>>)

\* int(s) for a part of a line: Some(n), or None where int raises ValueError.
int(part) ==
    IF Len(part) = 1 /\ \E n \in 0..9 : DigitStr[n + 1] = part[1]
    THEN Some(CHOOSE n \in 0..9 : DigitStr[n + 1] = part[1])
    ELSE IF Len(part) = 2 /\ part[1] = "-"
            /\ \E n \in 0..9 : DigitStr[n + 1] = part[2]
    THEN Some(0 - (CHOOSE n \in 0..9 : DigitStr[n + 1] = part[2]))
    ELSE None

\* The string that a part of a line is, when it is a single word.
word(part) == IF Len(part) = 1 THEN part[1] ELSE "?"

\* Variant of Robot.place of src/robot.py: the coordinates may reach 5.
Legacy_Robot_place_wide(r, px, py, pf) ==
    IF 0 <= px /\ px <= 5 /\ 0 <= py /\ py <= 5
          /\ pf \in {"NORTH", "SOUTH", "EAST", "WEST"}
    THEN [robot |-> [x |-> Some(px), y |-> Some(py), facing |-> Some(pf)],
          ret |-> TRUE]
    ELSE [robot |-> r, ret |-> FALSE]

\* Robot.place of src/robot.py.
Legacy_Robot_place(r, px, py, pf) ==
    IF 0 <= px /\ px <= 4 /\ 0 <= py /\ py <= 4
          /\ pf \in {"NORTH", "SOUTH", "EAST", "WEST"}
    THEN [robot |-> [x |-> Some(px), y |-> Some(py), facing |-> Some(pf)],
          ret |-> TRUE]
    ELSE [robot |-> r, ret |-> FALSE]

\* Robot.move of src/robot.py: no branch is taken when facing is None.
Legacy_Robot_move(r) ==
    IF r.facing = Some("NORTH")
    THEN [r EXCEPT !.y = Some(min(Val(r.y) + 1, 4))]
    ELSE IF r.facing = Some("SOUTH")
    THEN [r EXCEPT !.y = Some(max(Val(r.y) - 1, 0))]
    ELSE IF r.facing = Some("EAST")
    THEN [r EXCEPT !.x = Some(min(Val(r.x) + 1, 4))]
    ELSE IF r.facing = Some("WEST")
    THEN [r EXCEPT !.x = Some(max(Val(r.x) - 1, 0))]
    ELSE r

\* Robot.left and Robot.right of src/robot.py, for a robot that has a facing.
Legacy_Robot_left(r) ==
    [r EXCEPT !.facing =
        Some(directions[((directions_index(Val(r.facing)) - 1) % 4) + 1])]

Legacy_Robot_right(r) ==
    [r EXCEPT !.facing =
        Some(directions[((directions_index(Val(r.facing)) + 1) % 4) + 1])]

\* Variant of Robot.report of src/robot.py: no space after the commas.
Legacy_Robot_report_compact(r) ==
    IF r.x # None /\ r.y # None
    THEN <<int_str(Val(r.x)), ",", int_str(Val(r.y)), ",", facing_str(r.facing)>>
    ELSE <<"Not placed">>

\* Robot.report of src/robot.py: f"{self.x}, {self.y}, {self.facing}".
Legacy_Robot_report(r) ==
    IF r.x # None /\ r.y # None
    THEN <<int_str(Val(r.x)), ", ", int_str(Val(r.y)), ", ", facing_str(r.facing)>>
    ELSE <<"Not placed">>

\* Variant of Table.process_command: MOVE, LEFT, RIGHT and REPORT reach the
\* robot whether it is placed or not.
process_command_unguarded(r, command) ==
    LET parts == split(command)
        Same(v) == [robot |-> r, ret |-> v]
    IN  IF Len(parts) = 0
        THEN Same(Raised("IndexError", <<"list index out of range">>))
        ELSE IF parts[1] = <<"PLACE">>
        THEN IF Len(parts) < 2
             THEN Same(Raised("IndexError", <<"list index out of range">>))
             ELSE LET fields == split_sep(parts[2], ",")
                  IN  IF Len(fields) # 3
                      THEN Same(Raised("ValueError", <<"values to unpack">>))
                      ELSE IF int(fields[1]) = None \/ int(fields[2]) = None
                      THEN Same(Raised("ValueError", <<"invalid literal for int()">>))
                      ELSE LET res == Legacy_Robot_place(r, Val(int(fields[1])),
                                          Val(int(fields[2])), word(fields[3]))
                           IN  IF res.ret
                               THEN [robot |-> res.robot,
                                     ret |-> Returned(<<"Robot placed successfully.">>)]
                               ELSE [robot |-> res.robot,
                                     ret |-> Returned(<<"Invalid placement.">>)]
        ELSE IF parts[1] = <<"MOVE">>
        THEN [robot |-> Legacy_Robot_move(r),
              ret |-> Returned(<<"Move successful.">>)]
        ELSE IF parts[1] \in {<<"LEFT">>, <<"RIGHT">>}
        THEN IF r.facing = None
             THEN Same(Raised("ValueError", <<"None is not in list">>))
             ELSE [robot |-> IF parts[1] = <<"LEFT">> THEN Legacy_Robot_left(r)
                             ELSE Legacy_Robot_right(r),
                   ret |-> Returned(<<word(parts[1]), " successful.">>)]
        ELSE IF parts[1] = <<"REPORT">>
        THEN Same(Returned(Legacy_Robot_report(r)))
        ELSE Same(Returned(<<"Invalid command.">>))

\* Table.process_command on the robot r: the new robot and what is returned
\* or raised.
process_command(r, command) ==
    LET parts == split(command)
        Same(v) == [robot |-> r, ret |-> v]
    IN  IF Len(parts) = 0
        THEN Same(Raised("IndexError", <<"list index out of range">>))
        ELSE IF parts[1] = <<"PLACE">>
        THEN IF Len(parts) < 2
             THEN Same(Raised("IndexError", <<"list index out of range">>))
             ELSE LET fields == split_sep(parts[2], ",")
                  IN  IF Len(fields) # 3
                      THEN Same(Raised("ValueError", <<"values to unpack">>))
                      ELSE IF int(fields[1]) = None \/ int(fields[2]) = None
                      THEN Same(Raised("ValueError", <<"invalid literal for int()">>))
                      ELSE LET res == Legacy_Robot_place(r, Val(int(fields[1])),
                                          Val(int(fields[2])), word(fields[3]))
                           IN  IF res.ret
                               THEN [robot |-> res.robot,
                                     ret |-> Returned(<<"Robot placed successfully.">>)]
                               ELSE [robot |-> res.robot,
                                     ret |-> Returned(<<"Invalid placement.">>)]
        ELSE IF parts[1] = <<"MOVE">> /\ r.x # None
        THEN [robot |-> Legacy_Robot_move(r),
              ret |-> Returned(<<"Move successful.">>)]
        ELSE IF parts[1] \in {<<"LEFT">>, <<"RIGHT">>} /\ r.x # None
        THEN IF r.facing = None
             THEN Same(Raised("ValueError", <<"None is not in list">>))
             ELSE [robot |-> IF parts[1] = <<"LEFT">> THEN Legacy_Robot_left(r)
                             ELSE Legacy_Robot_right(r),
                   ret |-> Returned(<<word(parts[1]), " successful.">>)]
        ELSE IF parts[1] = <<"REPORT">> /\ r.x # None
        THEN Same(Returned(Legacy_Robot_report(r)))
        ELSE Same(Returned(<<"Invalid command.">>))

\* The pieces of the decimal numeral of n, as a user types it.
numeral(n) == IF n < 0 THEN <<"-", int_str(0 - n)>> ELSE <<int_str(n)>>

LineInputs ==
    {<<"PLACE", " ">> \o numeral(px) \o <<",">> \o numeral(py) \o <<",", pf>> :
        px \in CoordInputs, py \in CoordInputs, pf \in FacingInputs}
    \cup {<<"MOVE">>, <<"LEFT">>, <<"RIGHT">>, <<"REPORT">>, <<"move">>,
          <<"JUMP">>, <<>>, <<" ", "MOVE", " ">>, <<"PLACE">>,
          <<"PLACE", " ", "1", ",", "2">>,
          <<"PLACE", " ", "1", ",", " ", "2", ",", " ", "NORTH">>,
          <<"PLACE", " ", "NORTH", ",", "1", ",", "2">>}

Table_process_command ==
    \E command \in LineInputs :
        LET res == process_command(robot, command)
        IN  Becomes(res.robot, "process_command", <<command>>, res.ret)

NextLegacy ==
    \/ Table_process_command
    \/ Forget

SpecLegacy == Init /\ [][NextLegacy]_vars

----------------------------------------------------------------------------
(* The two programs side by side: every command is given to the Table of   *)
(* src/robot.py as a line and to the backend as a request.  table is the   *)
(* robot of the Table, and x, y and facing are the robot of the backend.   *)

\* The line typed to the Table and the request sent to the backend for one
\* command.
PlaceCommand(px, py, pf) ==
    [line |-> <<"PLACE", " ">> \o numeral(px) \o <<",">> \o numeral(py)
                  \o <<",", pf>>,
     request |-> [name |-> "POST /api/robot/place", args |-> <<px, py, pf>>]]

RobotCommand(line, command) ==
    [line |-> <<line>>,
     request |-> [name |-> "POST /api/robot/command", args |-> <<command>>]]

BothInputs ==
    {PlaceCommand(px, py, pf) :
        px \in CoordInputs, py \in CoordInputs, pf \in FacingInputs}
    \cup {RobotCommand("MOVE", MOVE), RobotCommand("LEFT", LEFT),
          RobotCommand("RIGHT", RIGHT), RobotCommand("REPORT", REPORT)}

Both_process_command ==
    \E command \in BothInputs :
        LET backend == Handle(robot, command.request)
            legacy == process_command(table, command.line)
        IN  /\ Idle
            /\ x' = backend.robot.x
            /\ y' = backend.robot.y
            /\ facing' = backend.robot.facing
            /\ table' = legacy.robot
            /\ op' = [name |-> "both", args |-> <<command>>]
            /\ ret' = [backend |-> backend.response, legacy |-> legacy.ret]
            /\ prev' = robot
            /\ rot' = NoRot(backend.robot)
            /\ called' = <<"both">>
            /\ sinceReset' = sinceReset
            /\ run' = NoRun
            /\ UNCHANGED <<settings, loop, cls, middleware, moves>>

NextBoth ==
    \/ Both_process_command
    \/ Forget

SpecBoth == Init /\ [][NextBoth]_vars

----------------------------------------------------------------------------
(* RequestIDMiddleware (backend/app/middleware.py).  middleware holds the   *)
(* _request_counter of the one middleware object, the second that           *)
(* time.time() is in, and a task for every request with its position in     *)
(* dispatch and its local request_id.  A task runs until it awaits.         *)

\* f"{int(time.time())}-{self._request_counter}"
RequestId(time, counter) == <<int_str(time), "-", int_str(counter)>>

Dispatched(i) == middleware.tasks[i]

\* A request reaches RequestIDMiddleware.dispatch.
Dispatch_arrive ==
    /\ Len(middleware.tasks) < MaxDispatches
    /\ middleware' = [middleware EXCEPT !.tasks =
           Append(@, [pc |-> "load", counter |-> 0, second |-> 0,
                      request_id |-> None, header |-> None, seen |-> 0])]
    /\ UNCHANGED <<x, y, facing, op, ret, prev, rot, called, sinceReset, run,
                   settings, loop, cls, table, moves>>

\* The event loop, with no task running, resumes the task i.
Dispatch_resume ==
    \E i \in 1..Len(middleware.tasks) :
        /\ middleware.running = 0
        /\ Dispatched(i).pc # "done"
        /\ middleware' = [middleware EXCEPT !.running = i]
        /\ UNCHANGED <<x, y, facing, op, ret, prev, rot, called, sinceReset, run,
                       settings, loop, cls, table, moves>>

\* time.time() passes into the next second.
Dispatch_tick ==
    /\ middleware.time < MaxTime
    /\ middleware' = [middleware EXCEPT !.time = @ + 1]
    /\ UNCHANGED <<x, y, facing, op, ret, prev, rot, called, sinceReset, run,
                   settings, loop, cls, table, moves>>

\* The running task i has executed the statement at pc: its record becomes t
\* and _request_counter becomes c; it gives way if the statement awaits or
\* was its last.
Proceeds(i, pc, t, c) ==
    /\ middleware' = [request_counter |-> c,
                      time |-> middleware.time,
                      tasks |-> [middleware.tasks EXCEPT ![i] = t],
                      running |-> IF Awaits(pc) \/ t.pc = "done" THEN 0 ELSE i]
    /\ UNCHANGED <<x, y, facing, op, ret, prev, rot, called, sinceReset, run,
                   settings, loop, cls, table, moves>>

\* `self._request_counter += 1`: the attribute is read ...
Dispatch_load ==
    LET i == middleware.running
    IN  /\ i # 0
        /\ Dispatched(i).pc = "load"
        /\ Proceeds(i, "load",
               [Dispatched(i) EXCEPT !.pc = "store",
                                     !.counter = middleware.request_counter],
               middleware.request_counter)

\* ... and one more than what was read is written.
Dispatch_store ==
    LET i == middleware.running
    IN  /\ i # 0
        /\ Dispatched(i).pc = "store"
        /\ Proceeds(i, "store",
               [Dispatched(i) EXCEPT !.pc = "format", !.counter = @ + 1],
               Dispatched(i).counter + 1)

\* request_id = f"{int(time.time())}-{self._request_counter}"
Dispatch_format ==
    LET i == middleware.running
    IN  /\ i # 0
        /\ Dispatched(i).pc = "format"
        /\ Proceeds(i, "format",
               [Dispatched(i) EXCEPT
                    !.pc = "call_next",
                    !.second = middleware.time,
                    !.request_id = Some(RequestId(middleware.time,
                                                  middleware.request_counter))],
               middleware.request_counter)

\* response = await call_next(request)
Dispatch_call_next ==
    LET i == middleware.running
    IN  /\ i # 0
        /\ Dispatched(i).pc = "call_next"
        /\ Proceeds(i, "call_next", [Dispatched(i) EXCEPT !.pc = "header"],
                    middleware.request_counter)

\* response.headers["X-Request-ID"] = request_id; return response.  seen is
\* what _request_counter holds by then.
Dispatch_header ==
    LET i == middleware.running
    IN  /\ i # 0
        /\ Dispatched(i).pc = "header"
        /\ Proceeds(i, "header",
               [Dispatched(i) EXCEPT !.pc = "done",
                                     !.header = Dispatched(i).request_id,
                                     !.seen = middleware.request_counter],
               middleware.request_counter)

NextMiddleware ==
    \/ Dispatch_arrive
    \/ Dispatch_resume
    \/ Dispatch_tick
    \/ Dispatch_load
    \/ Dispatch_store
    \/ Dispatch_format
    \/ Dispatch_call_next
    \/ Dispatch_header

SpecMiddleware == Init /\ [][NextMiddleware]_vars

----------------------------------------------------------------------------
(* The table settings as configuration: the service is started with any of *)
(* the widths and heights of SizeInputs in Settings, and asked to place    *)
(* and to move.                                                            *)

InitConfig ==
    /\ settings \in [TABLE_WIDTH : SizeInputs, TABLE_HEIGHT : SizeInputs]
    /\ x = None
    /\ y = None
    /\ facing = None
    /\ op = [name |-> "init", args |-> <<>>]
    /\ ret = Returned(None)
    /\ prev = Robot_init
    /\ rot = NoRot(Robot_init)
    /\ called = <<>>
    /\ sinceReset = [before |-> FALSE, after |-> FALSE]
    /\ run = NoRun
    /\ loop = NoLoop
    /\ cls = Constructed
    /\ table = Robot_init
    /\ middleware = NoRequests
    /\ moves = NoMoves(Robot_init)

NextConfig ==
    \/ RobotService_place
    \/ RobotService_move
    \/ Forget

SpecConfig == InitConfig /\ [][NextConfig]_vars

----------------------------------------------------------------------------
(* RobotService as a class: _instance and _robot are class attributes,     *)
(* `self._robot` of every method reads the class attribute, and callers    *)
(* take handles with RobotService() and RobotService.get_instance().       *)
(* Objects are numbered in the order of their creation.  x, y and facing   *)
(* are the fields of the Robot object that _robot refers to.               *)

\* Variant of RobotService.__new__: every construction makes a new service
\* object with a new robot.
RobotService_new_fresh(c, r) ==
    [cls |-> [c EXCEPT !.instance = Some(c.objects + 1),
                       !.objects = @ + 1,
                       !.robot = Some(c.robots + 1),
                       !.robots = @ + 1],
     robot |-> Robot_init,
     ret |-> c.objects + 1]

\* RobotService.__new__ with the class attributes c and the robot r: the new
\* class attributes, the robot, and the object returned.
RobotService_new(c, r) ==
    IF c.instance = None
    THEN [cls |-> [c EXCEPT !.instance = Some(c.objects + 1),
                            !.objects = @ + 1,
                            !.robot = Some(c.robots + 1),
                            !.robots = @ + 1],
          robot |-> Robot_init,
          ret |-> c.objects + 1]
    ELSE [cls |-> c, robot |-> r, ret |-> Val(c.instance)]

\* RobotService.get_instance.
get_instance(c, r) ==
    IF c.instance = None
    THEN LET made == RobotService_new(c, r)
         IN  [cls |-> [made.cls EXCEPT !.instance = Some(made.ret)],
              robot |-> made.robot,
              ret |-> made.ret]
    ELSE [cls |-> c, robot |-> r, ret |-> Val(c.instance)]

\* Variant of RobotService.reset_singleton: the instance is dropped and the
\* robot is kept.
reset_singleton_dropping(c, r) ==
    [cls |-> [c EXCEPT !.instance = None], robot |-> r]

\* RobotService.reset_singleton: `if cls._instance is not None:
\* cls._robot = Robot()`.
reset_singleton(c, r) ==
    IF c.instance # None
    THEN [cls |-> [c EXCEPT !.robot = Some(c.robots + 1), !.robots = @ + 1],
          robot |-> Robot_init]
    ELSE [cls |-> c, robot |-> r]

\* Bookkeeping of a call on the class: the class attributes become c and the
\* robot r.
ClassBecomes(c, r, name, result) ==
    /\ Idle
    /\ cls' = c
    /\ x' = r.x
    /\ y' = r.y
    /\ facing' = r.facing
    /\ op' = [name |-> name, args |-> <<>>]
    /\ ret' = result
    /\ prev' = robot
    /\ rot' = NoRot(r)
    /\ called' = <<name>>
    /\ sinceReset' = sinceReset
    /\ run' = NoRun
    /\ UNCHANGED <<settings, loop, table, middleware, moves>>

\* service = RobotService()
Construct ==
    /\ Len(cls.handles) < MaxHandles
    /\ LET made == RobotService_new(cls, robot)
       IN  ClassBecomes([made.cls EXCEPT !.handles = Append(@, made.ret)],
                        made.robot, "RobotService", Returned(made.ret))

\* service = RobotService.get_instance()
GetInstance ==
    /\ Len(cls.handles) < MaxHandles
    /\ LET got == get_instance(cls, robot)
       IN  ClassBecomes([got.cls EXCEPT !.handles = Append(@, got.ret)],
                        got.robot, "get_instance", Returned(got.ret))

\* RobotService.reset_singleton()
ResetSingleton ==
    /\ cls.robots < MaxRobots
    /\ LET res == reset_singleton(cls, robot)
       IN  ClassBecomes(res.cls, res.robot, "reset_singleton", Returned(None))

\* A caller that holds a handle calls a method on it.
ThroughHandle ==
    /\ cls.handles # <<>>
    /\ \/ RobotService_place
       \/ RobotService_move
       \/ RobotService_report
       \/ RobotService_get_state
       \/ RobotService_reset

InitSingleton ==
    /\ cls = Unconstructed
    /\ x = None
    /\ y = None
    /\ facing = None
    /\ op = [name |-> "init", args |-> <<>>]
    /\ ret = Returned(None)
    /\ prev = Robot_init
    /\ rot = NoRot(Robot_init)
    /\ called = <<>>
    /\ sinceReset = [before |-> FALSE, after |-> FALSE]
    /\ run = NoRun
    /\ settings = Settings
    /\ loop = NoLoop
    /\ table = Robot_init
    /\ middleware = NoRequests
    /\ moves = NoMoves(Robot_init)

NextSingleton ==
    \/ Construct
    \/ GetInstance
    \/ ResetSingleton
    \/ ThroughHandle
    \/ Forget

SpecSingleton == InitSingleton /\ [][NextSingleton]_vars

----------------------------------------------------------------------------
(* Runs of moves: the robot is placed or turned, which starts a run, and   *)
(* then moved again and again.                                             *)

\* Bookkeeping of a call that leaves the robot r and the run of moves m.
Moved(r, name, args, result, m) ==
    /\ Idle
    /\ x' = r.x
    /\ y' = r.y
    /\ facing' = r.facing
    /\ op' = [name |-> name, args |-> args]
    /\ ret' = result
    /\ prev' = robot
    /\ rot' = NoRot(r)
    /\ called' = <<name>>
    /\ sinceReset' = sinceReset
    /\ run' = NoRun
    /\ moves' = m
    /\ UNCHANGED <<settings, loop, cls, table, middleware>>

Place_then_move ==
    \E px \in CoordInputs, py \in CoordInputs, pf \in FacingInputs :
        LET res == Robot_place(robot, px, py, pf)
        IN  Moved(res.robot, "place", <<px, py, pf>>, Returned(res.ret),
                  NoMoves(res.robot))

Turn_then_move ==
    \/ Moved(Robot_left(robot), "left", <<>>, Returned(None),
             NoMoves(Robot_left(robot)))
    \/ Moved(Robot_right(robot), "right", <<>>, Returned(None),
             NoMoves(Robot_right(robot)))

Move_again ==
    /\ moves.count < MaxMoves
    /\ Moved(Robot_move(robot), "move", <<>>, Returned(None),
             [moves EXCEPT !.count = @ + 1])

NextMoves ==
    \/ Place_then_move
    \/ Turn_then_move
    \/ Move_again
    \/ Forget

SpecMoves == Init /\ [][NextMoves]_vars

----------------------------------------------------------------------------
(* Properties.  The table of the specification is Width by Height          *)
(* (Settings.TABLE_WIDTH, Settings.TABLE_HEIGHT).                          *)

Width == 5

Height == 5

\* The arguments <<px, py, pf>> of a placement the specification accepts.
ValidPlacement(a) ==
    /\ 0 <= a[1] /\ a[1] < Width
    /\ 0 <= a[2] /\ a[2] < Height
    /\ a[3] \in {"NORTH", "EAST", "SOUTH", "WEST"}

Placed(px, py, pf) == [x |-> Some(px), y |-> Some(py), facing |-> Some(pf)]

\* C1: whenever the robot is placed, x is in 0..Width-1, y is in 0..Height-1
\* and facing is one of the four directions.
C1_PlacedWithinBounds ==
    Robot_is_placed(robot) =>
        /\ Val(x) \in 0..(Width - 1)
        /\ Val(y) \in 0..(Height - 1)
        /\ Val(facing) \in {"NORTH", "EAST", "SOUTH", "WEST"}

\* A robot on the north edge facing NORTH has just been told to move.
C1_Witness ==
    /\ op.name = "move"
    /\ prev = Placed(2, Height - 1, "NORTH")
    /\ Robot_is_placed(robot)

\* C2: x, y and facing are all three set or all three unset.
C2_AllOrNothing ==
    \/ x = None /\ y = None /\ facing = None
    \/ x # None /\ y # None /\ facing # None

\* A placed robot has just been reset.
C2_Witness ==
    /\ op.name = "reset"
    /\ Robot_is_placed(prev)
    /\ x = None /\ y = None /\ facing = None

\* C3: a place() with a coordinate off the table or an unknown facing returns
\* False and leaves x, y and facing as they were.
C3_RejectedPlaceKeepsState ==
    (op.name = "place" /\ ~ValidPlacement(op.args)) =>
        /\ ret = Returned(FALSE)
        /\ robot = prev

\* A placed robot has just been through a rejected place() and is still there.
C3_Witness ==
    /\ op.name = "place"
    /\ ~ValidPlacement(op.args)
    /\ ret = Returned(FALSE)
    /\ Robot_is_placed(prev)
    /\ robot = prev

\* C4: a place() with coordinates on the table and a known facing returns True
\* and the robot is then exactly at its arguments.
C4_AcceptedPlaceOverwrites ==
    (op.name = "place" /\ ValidPlacement(op.args)) =>
        /\ ret = Returned(TRUE)
        /\ robot = Placed(op.args[1], op.args[2], op.args[3])

\* A placed robot has just been placed elsewhere, every field changing.
C4_Witness ==
    /\ op.name = "place"
    /\ ValidPlacement(op.args)
    /\ Robot_is_placed(prev)
    /\ x # prev.x /\ y # prev.y /\ facing # prev.facing
    /\ robot = Placed(Width - 1, Height - 1, "WEST")

\* The step move() is specified to take from (px, py) facing f: one unit on
\* the axis of f when that stays on the table, none otherwise.
SpecifiedStep(px, py, f) ==
    IF f = "NORTH" THEN <<px, IF py + 1 <= Height - 1 THEN py + 1 ELSE py>>
    ELSE IF f = "SOUTH" THEN <<px, IF py - 1 >= 0 THEN py - 1 ELSE py>>
    ELSE IF f = "EAST" THEN <<IF px + 1 <= Width - 1 THEN px + 1 ELSE px, py>>
    ELSE <<IF px - 1 >= 0 THEN px - 1 ELSE px, py>>

\* C5: move() on a placed robot changes the coordinate on the axis of the
\* facing by one when that stays on the table, leaves the other coordinate and
\* the facing unchanged, and returns normally.
C5_MoveOneUnit ==
    (op.name = "move" /\ Robot_is_placed(prev)) =>
        /\ ~ret.raised
        /\ facing = prev.facing
        /\ <<Val(x), Val(y)>> =
               SpecifiedStep(Val(prev.x), Val(prev.y), Val(prev.facing))

\* A robot facing SOUTH has just moved one unit down.
C5_Witness ==
    /\ op.name = "move"
    /\ prev = Placed(3, 2, "SOUTH")
    /\ robot = Placed(3, 1, "SOUTH")

\* The robot r stands on the edge it faces.
AtFacedEdge(r) ==
    \/ r.facing = Some("NORTH") /\ Val(r.y) = Height - 1
    \/ r.facing = Some("SOUTH") /\ Val(r.y) = 0
    \/ r.facing = Some("EAST") /\ Val(r.x) = Width - 1
    \/ r.facing = Some("WEST") /\ Val(r.x) = 0

\* C6: move() on a robot that stands on the edge it faces changes nothing.
C6_MoveAtEdge ==
    (op.name = "move" /\ Robot_is_placed(prev) /\ AtFacedEdge(prev)) =>
        robot = prev

\* A robot in the south-west corner facing WEST has just been told to move.
C6_Witness ==
    /\ op.name = "move"
    /\ prev = Placed(0, 0, "WEST")
    /\ robot = prev

\* The quarter turns of the specification.
RightOf(f) ==
    IF f = "NORTH" THEN "EAST"
    ELSE IF f = "EAST" THEN "SOUTH"
    ELSE IF f = "SOUTH" THEN "WEST"
    ELSE "NORTH"

LeftOf(f) ==
    IF f = "NORTH" THEN "WEST"
    ELSE IF f = "WEST" THEN "SOUTH"
    ELSE IF f = "SOUTH" THEN "EAST"
    ELSE "NORTH"

\* C7: on a placed robot right() takes the facing one step along NORTH, EAST,
\* SOUTH, WEST, NORTH and left() one step along the reverse cycle.
C7_RotationCycle ==
    /\ (op.name = "right" /\ Robot_is_placed(prev)) =>
           facing = Some(RightOf(Val(prev.facing)))
    /\ (op.name = "left" /\ Robot_is_placed(prev)) =>
           facing = Some(LeftOf(Val(prev.facing)))

\* A robot facing NORTH has just turned left and faces WEST.
C7_Witness ==
    /\ op.name = "left"
    /\ prev.facing = Some("NORTH")
    /\ facing = Some("WEST")

\* The last call was a rotation: left(), right(), or the LEFT or RIGHT command.
Rotating ==
    \/ op.name \in {"left", "right"}
    \/ op.name = "execute_command" /\ op.args[1] \in {LEFT, RIGHT}

\* C8: rotations never change x or y: neither one rotation, nor the whole run
\* of consecutive rotations that the robot is in.
C8_RotationKeepsPosition ==
    /\ Rotating => (x = prev.x /\ y = prev.y)
    /\ (rot.lefts + rot.rights > 0) => (x = rot.start.x /\ y = rot.start.y)

\* A placed robot has turned both ways several times, last by a command.
C8_Witness ==
    /\ op.name = "execute_command"
    /\ op.args[1] = LEFT
    /\ rot.lefts >= 2
    /\ rot.rights >= 2
    /\ Robot_is_placed(rot.start)
    /\ x = rot.start.x /\ y = rot.start.y

\* The facing f after n quarter turns of the specification.
RECURSIVE LeftTimes(_, _)
LeftTimes(f, n) == IF n = 0 THEN f ELSE LeftTimes(LeftOf(f), n - 1)

RECURSIVE RightTimes(_, _)
RightTimes(f, n) == IF n = 0 THEN f ELSE RightTimes(RightOf(f), n - 1)

\* C9: after k rotations in one direction from a placed state the robot is
\* where k mod 4 such rotations take it; after four it is as it was.
C9_FourRotationsIdentity ==
    Robot_is_placed(rot.start) =>
        /\ (rot.rights = 0 /\ rot.lefts = 4) => robot = rot.start
        /\ (rot.lefts = 0 /\ rot.rights = 4) => robot = rot.start
        /\ (rot.rights = 0) =>
               robot = [rot.start EXCEPT
                           !.facing = Some(LeftTimes(Val(@), rot.lefts % 4))]
        /\ (rot.lefts = 0) =>
               robot = [rot.start EXCEPT
                           !.facing = Some(RightTimes(Val(@), rot.rights % 4))]

\* A placed robot has turned left four times in a row.
C9_Witness ==
    /\ rot.lefts = 4
    /\ rot.rights = 0
    /\ Robot_is_placed(rot.start)
    /\ robot = rot.start

\* C10: a left() and a right() in a row, in either order, restore x, y and
\* facing.
C10_LeftRightInverse ==
    (rot.lefts = 1 /\ rot.rights = 1 /\ Robot_is_placed(rot.start)) =>
        robot = rot.start

\* A placed robot has turned left and then right.
C10_Witness ==
    /\ op.name = "right"
    /\ rot.lefts = 1
    /\ rot.rights = 1
    /\ Robot_is_placed(rot.start)
    /\ robot = rot.start

\* str(n) as the specification writes a coordinate.
Decimal(n) ==
    IF n = 0 THEN "0" ELSE IF n = 1 THEN "1" ELSE IF n = 2 THEN "2"
    ELSE IF n = 3 THEN "3" ELSE IF n = 4 THEN "4" ELSE "?"

\* The report value "{x},{y},{FACING}" of the specification, piece by piece.
ReportValue(px, py, f) == <<Decimal(px), ",", Decimal(py), ",", f>>

\* What report() is specified to return for the robot r.
SpecifiedReport(r) ==
    IF r.x # None /\ r.y # None /\ r.facing # None
    THEN Some(ReportValue(Val(r.x), Val(r.y), Val(r.facing)))
    ELSE None

\* C11: report() returns "{x},{y},{FACING}" without spaces for a placed robot
\* and None for one that is not placed; right after a successful
\* place(x, y, f), report() is "x,y,f".
C11_ReportFormat ==
    /\ op.name = "report" =>
           (ret = Returned(SpecifiedReport(robot)) /\ robot = prev)
    /\ (op.name = "place" /\ ret = Returned(TRUE)) =>
           Robot_report(robot) =
               Some(ReportValue(op.args[1], op.args[2], op.args[3]))

\* A robot at (3, 4) facing SOUTH has just reported.
C11_Witness ==
    /\ op.name = "report"
    /\ ret = Returned(Some(<<"3", ",", "4", ",", "SOUTH">>))

\* c spells the command n, whatever the case of its letters.
Spelling(c, n) ==
    /\ Len(c) = Len(n)
    /\ \A i \in 1..Len(n) :
           \/ c[i] = n[i]
           \/ \E k \in 1..26 : c[i] = LowerCase[k] /\ n[i] = UpperCase[k]

\* The last call was execute_command with a spelling of one of the names ns.
Executed(o, ns) ==
    /\ o.name = "execute_command"
    /\ \E n \in ns : Spelling(o.args[1], n)

\* C12: REPORT is legal in every state: it raises nothing, returns None for a
\* robot that is not placed and the report value for a placed one, leaves x, y
\* and facing unchanged, and a REPORT that follows it returns the same.
C12_ReportAlwaysLegal ==
    Executed(op, {REPORT}) =>
        /\ ~ret.raised
        /\ ret.value = SpecifiedReport(prev)
        /\ robot = prev
        /\ execute_command(robot, REPORT).ret = ret

\* A robot that is not placed has just been asked to report, by command.
C12_Witness ==
    /\ Executed(op, {REPORT})
    /\ ~Robot_is_placed(prev)
    /\ ret = Returned(None)
    /\ ~Robot_is_placed(robot)

Range(q) == {q[i] : i \in 1..Len(q)}

\* C14: a MOVE, LEFT or RIGHT request to the command endpoint while the robot
\* is not placed is answered 400 robot_not_placed, without a call of the
\* service's execute_command, and the robot stays not placed.
C14_HttpCommandNotPlaced ==
    (/\ op.name = "POST /api/robot/command"
     /\ op.args[1] \in {MOVE, LEFT, RIGHT}
     /\ ~Robot_is_placed(prev)) =>
        /\ ret.status = 400
        /\ ret.body.details.error_type = "robot_not_placed"
        /\ "execute_command" \notin Range(called)
        /\ robot = prev

\* A LEFT request has just been refused because the robot is not placed.
C14_Witness ==
    /\ op.name = "POST /api/robot/command"
    /\ op.args[1] = LEFT
    /\ ~Robot_is_placed(prev)
    /\ ret.status = 400
    /\ called = <<"is_placed">>

\* C15: execute_command with a name that is no spelling of MOVE, LEFT, RIGHT
\* or REPORT raises ValueError carrying the name as the caller gave it, and
\* leaves x, y and facing unchanged.
C15_UnknownCommandCarriesName ==
    (op.name = "execute_command"
         /\ ~Executed(op, {MOVE, LEFT, RIGHT, REPORT})) =>
        /\ ret.raised
        /\ ret.value[1] = "ValueError"
        /\ ret.value[2] = <<"Unknown command: ", op.args[1]>>
        /\ robot = prev

\* C16: execute_command gives, for every spelling of MOVE, LEFT, RIGHT or
\* REPORT, the result and the state it gives for the upper-case spelling.
C16_CaseInsensitive ==
    op.name = "execute_command" =>
        \A n \in {MOVE, LEFT, RIGHT, REPORT} :
            Spelling(op.args[1], n) =>
                /\ robot = execute_command(prev, n).robot
                /\ ret = execute_command(prev, n).ret

\* A placed robot has just moved on the command "move".
C16_Witness ==
    /\ op.name = "execute_command"
    /\ op.args[1] = <<"m", "o", "v", "e">>
    /\ Robot_is_placed(prev)
    /\ robot # prev

\* C17: after reset() x, y and facing are unset and get_state() is that of a
\* fresh robot.
C17_ResetUnplaces ==
    op.name = "reset" =>
        /\ x = None /\ y = None /\ facing = None
        /\ Robot_to_dict(robot) = Robot_to_dict(Robot_init)

\* A robot in the north-east corner has just been reset.
C17_Witness ==
    /\ op.name = "reset"
    /\ prev = Placed(Width - 1, Height - 1, "SOUTH")
    /\ ~Robot_to_dict(robot).is_placed

C19_PlaceAfterResetAsFresh ==
    (sinceReset.before /\ op.name = "place") =>
        LET fresh == Robot_place(Robot_init, op.args[1], op.args[2], op.args[3])
        IN  robot = fresh.robot /\ ret = Returned(fresh.ret)

\* A robot that was reset has just been placed in the north-east corner.
C19_Witness ==
    /\ sinceReset.before
    /\ op.name = "place"
    /\ ret = Returned(TRUE)
    /\ robot = Placed(Width - 1, Height - 1, "SOUTH")

\* C20: a call that finds the robot not placed and leaves it placed is a
\* place() with coordinates on the table and a known facing.
C20_OnlyPlacePlaces ==
    (~Robot_is_placed(prev) /\ Robot_is_placed(robot)) =>
        (op.name = "place" /\ ValidPlacement(op.args))

\* A robot that was not placed has just been placed.
C20_Witness ==
    /\ ~Robot_is_placed(prev)
    /\ Robot_is_placed(robot)
    /\ op.name = "place"

\* C21: a call that finds the robot placed and leaves it not placed is a
\* reset() or a reset_singleton(): place(), move(), left(), right(), report(),
\* get_state() and execute_command() never take a placed robot off the table.
C21_OnlyResetUnplaces ==
    (Robot_is_placed(prev) /\ ~Robot_is_placed(robot)) =>
        op.name \in {"reset", "reset_singleton"}

\* A placed robot has just been taken off the table by reset_singleton().
C21_Witness ==
    /\ op.name = "reset_singleton"
    /\ Robot_is_placed(prev)
    /\ ~Robot_is_placed(robot)

\* C22: move(), left() and right() on a robot that is not placed return
\* without raising and leave x, y and facing unset.
C22_UnplacedEntityNoOp ==
    (op.name \in {"move", "left", "right"} /\ ~Robot_is_placed(prev)) =>
        /\ ret = Returned(None)
        /\ robot = prev
        /\ x = None /\ y = None /\ facing = None

\* A robot that is not placed has just been told to turn left.
C22_Witness ==
    /\ op.name = "left"
    /\ prev = Robot_init
    /\ ret = Returned(None)
    /\ robot = Robot_init

\* C23: from any state, place(1, 2, EAST) followed by MOVE, MOVE, LEFT, MOVE
\* leaves the robot at (3, 3) facing NORTH, and the REPORT that follows
\* returns "3,3,NORTH".
C23_ScenarioC ==
    /\ run.steps = SubSeq(ExampleC, 1, 5) => robot = Placed(3, 3, "NORTH")
    /\ run.steps = ExampleC =>
           /\ robot = Placed(3, 3, "NORTH")
           /\ ~Idle => ret = Returned(Some(ReportValue(3, 3, "NORTH")))

\* Scenario C has just been run by commands on a robot that stood in the
\* south-east corner.
C23_Witness ==
    /\ run.steps = ExampleC
    /\ run.from = Placed(Width - 1, 0, "SOUTH")
    /\ op.name = "execute_command"
    /\ ret = Returned(Some(<<"3", ",", "3", ",", "NORTH">>))

\* C24: from any state, place(0, 0, NORTH) followed by MOVE leaves the robot
\* at (0, 1) facing NORTH, and the REPORT that follows returns "0,1,NORTH".
C24_ScenarioA ==
    /\ run.steps = SubSeq(ExampleA, 1, 2) => robot = Placed(0, 1, "NORTH")
    /\ run.steps = ExampleA =>
           /\ robot = Placed(0, 1, "NORTH")
           /\ ~Idle => ret = Returned(Some(ReportValue(0, 1, "NORTH")))

\* Scenario A has just been run on a robot that was not placed.
C24_Witness ==
    /\ run.steps = ExampleA
    /\ run.from = Robot_init
    /\ op.name = "report"
    /\ ret = Returned(Some(<<"0", ",", "1", ",", "NORTH">>))

\* C25: from any state, place(0, 0, NORTH) followed by LEFT leaves the robot
\* at (0, 0) facing WEST, and the REPORT that follows returns "0,0,WEST".
C25_ScenarioB ==
    /\ run.steps = SubSeq(ExampleB, 1, 2) => robot = Placed(0, 0, "WEST")
    /\ run.steps = ExampleB =>
           /\ robot = Placed(0, 0, "WEST")
           /\ ~Idle => ret = Returned(Some(ReportValue(0, 0, "WEST")))

\* Scenario B has just been run on a robot that stood elsewhere, facing EAST.
C25_Witness ==
    /\ run.steps = ExampleB
    /\ run.from = Placed(2, 3, "EAST")
    /\ op.name = "report"
    /\ ret = Returned(Some(<<"0", ",", "0", ",", "WEST">>))

\* C26 as stated: with the table configured W wide and H high, place() accepts
\* exactly the coordinates 0 <= x < W and 0 <= y < H, move() stops at W - 1
\* and at H - 1, and a placed robot is within the configured table.
C26_ConfiguredBounds ==
    LET W == settings.TABLE_WIDTH
        H == settings.TABLE_HEIGHT
    IN  /\ op.name = "place" =>
               ((ret = Returned(TRUE)) <=>
                    /\ 0 <= op.args[1] /\ op.args[1] < W
                    /\ 0 <= op.args[2] /\ op.args[2] < H
                    /\ op.args[3] \in {"NORTH", "EAST", "SOUTH", "WEST"})
        /\ (op.name = "move" /\ prev.facing = Some("EAST")) =>
               Val(x) = min(Val(prev.x) + 1, W - 1)
        /\ (op.name = "move" /\ prev.facing = Some("NORTH")) =>
               Val(y) = min(Val(prev.y) + 1, H - 1)
        /\ Robot_is_placed(robot) => (Val(x) < W /\ Val(y) < H)

\* The task t stands between the placement check of the command route and the
\* call it guards, or between two of the field writes of place or reset.
Midway(t) ==
    t.pc \in {"execute_command", "place_y", "place_facing", "reset_y",
              "reset_facing"}

\* The tasks that have answered.
Answered == {i \in 1..Len(loop.tasks) : loop.tasks[i].pc = "done"}

\* The orders in which the tasks of D can be taken one after the other.
Orders(D) ==
    {o \in [1..Cardinality(D) -> D] :
        \A j, k \in 1..Cardinality(D) : j # k => o[j] # o[k]}

\* Handling the requests of o[k], o[k + 1], ... one after the other from the
\* robot r gives the responses the tasks gave and leaves the robot as it is.
RECURSIVE Sequential(_, _, _)
Sequential(r, o, k) ==
    IF k > Len(o) THEN r = robot
    ELSE LET h == Handle(r, loop.tasks[o[k]].request)
             response == loop.tasks[o[k]].response
         IN  /\ response.status = h.response.status
             /\ response = h.response
             /\ Sequential(h.robot, o, k + 1)

C28_GetState ==
    /\ Robot_to_dict(robot).is_placed = Robot_is_placed(robot)
    /\ op.name = "get_state" =>
           /\ ret = Returned([x |-> x, y |-> y, facing |-> facing,
                              is_placed |->
                                  (x # None /\ y # None /\ facing # None)])
           /\ robot = prev

\* The state of a robot at (2, 3) facing EAST has just been read.
C28_Witness ==
    /\ op.name = "get_state"
    /\ robot = Placed(2, 3, "EAST")
    /\ ret.value.is_placed
    /\ ret.value.x = Some(2)

\* C29: a place request with x or y outside 0..4 or with an unknown facing is
\* answered 422 validation_error without a call of the service, and the robot
\* is unchanged; no place request is answered 400.
C29_HttpPlaceValidation ==
    op.name = "POST /api/robot/place" =>
        /\ ~ValidPlacement(op.args) =>
               /\ ret.status = 422
               /\ ret.body.details.error_type = "validation_error"
               /\ called = <<>>
               /\ robot = prev
        /\ ret.status # 400

\* A request to place a placed robot at x = 5 has just been refused.
C29_Witness ==
    /\ op.name = "POST /api/robot/place"
    /\ op.args[1] = Width
    /\ op.args[3] = "NORTH"
    /\ Robot_is_placed(prev)
    /\ ret.status = 422
    /\ robot = prev

\* C30: for the Table of the command-line simulator, once a PLACE has
\* succeeded, MOVE returns "Move successful.", LEFT and RIGHT return
\* "LEFT successful." and "RIGHT successful.", and REPORT returns the current
\* state as "x, y, FACING", with a space after each comma; the robot is only
\* ever put on the table by a PLACE that succeeds.
C30_LegacyTableMessages ==
    op.name = "process_command" =>
        /\ (prev.x = None /\ x # None) =>
               (/\ op.args[1][1] = "PLACE"
                /\ ret = Returned(<<"Robot placed successfully.">>))
        /\ prev.x # None =>
               /\ op.args[1] = <<"MOVE">> =>
                      ret = Returned(<<"Move successful.">>)
               /\ op.args[1] = <<"LEFT">> =>
                      ret = Returned(<<"LEFT", " successful.">>)
               /\ op.args[1] = <<"RIGHT">> =>
                      ret = Returned(<<"RIGHT", " successful.">>)
               /\ op.args[1] = <<"REPORT">> =>
                      /\ ret = Returned(<<Decimal(Val(x)), ", ", Decimal(Val(y)),
                                          ", ", Val(facing)>>)
                      /\ robot = prev

\* The Table has just reported a robot at (3, 3) facing NORTH.
C30_Witness ==
    /\ op.name = "process_command"
    /\ op.args[1] = <<"REPORT">>
    /\ ret = Returned(<<"3", ", ", "3", ", ", "NORTH">>)

\* C31: RobotService is a singleton.  Every handle that RobotService() or
\* get_instance() returned is the one instance, only one service object was
\* ever made, taking a new handle leaves the robot as it was, and get_state()
\* and report() through any handle show the robot as the last call through
\* any handle left it.
C31_Singleton ==
    /\ cls.objects <= 1
    /\ \A h \in 1..Len(cls.handles) : Some(cls.handles[h]) = cls.instance
    /\ (op.name \in {"RobotService", "get_instance"} /\ Len(cls.handles) > 1) =>
           /\ robot = prev
           /\ ret = Returned(cls.handles[1])
    /\ op.name = "get_state" =>
           (ret.value.x = x /\ ret.value.y = y /\ ret.value.facing = facing
            /\ robot = prev)
    /\ op.name = "report" => (ret.value = SpecifiedReport(prev) /\ robot = prev)

\* A second handle was just taken while the robot stood on the table, and
\* the robot is still there.
C31_Witness ==
    /\ op.name = "RobotService"
    /\ Len(cls.handles) = 2
    /\ Robot_is_placed(prev)
    /\ robot = prev
    /\ ret = Returned(1)

\* C32: after reset_singleton() every handle taken before is still the
\* instance and sees a robot that is not placed, with x, y and facing unset;
\* get_state() then returns what it returns after reset().
C32_ResetSingletonAsReset ==
    (op.name = "reset_singleton" /\ cls.handles # <<>>) =>
        /\ \A h \in 1..Len(cls.handles) : Some(cls.handles[h]) = cls.instance
        /\ x = None /\ y = None /\ facing = None
        /\ Robot_to_dict(robot) =
               Robot_to_dict([prev EXCEPT !.x = None, !.y = None,
                                          !.facing = None])

\* reset_singleton() has just taken a placed robot away from two handles.
C32_Witness ==
    /\ op.name = "reset_singleton"
    /\ Len(cls.handles) >= 2
    /\ Robot_is_placed(prev)
    /\ ~Robot_is_placed(robot)

\* C33: every 200 response of the place, command, state and reset endpoints
\* carries the x, y, facing and is_placed of the robot as that request left
\* it.
C33_ResponseCarriesState ==
    (op.name \in {"POST /api/robot/place", "POST /api/robot/command",
                  "GET /api/robot/state", "POST /api/robot/reset"}
         /\ ret.status = 200) =>
        /\ ret.body.x = x
        /\ ret.body.y = y
        /\ ret.body.facing = facing
        /\ ret.body.is_placed = (x # None /\ y # None /\ facing # None)
        /\ robot = Handle(prev, [name |-> op.name, args |-> op.args]).robot

\* A MOVE request has just been answered with the position it moved the
\* robot to.
C33_Witness ==
    /\ op.name = "POST /api/robot/command"
    /\ op.args[1] = MOVE
    /\ ret.status = 200
    /\ prev = Placed(1, 1, "EAST")
    /\ ret.body.x = Some(2)
    /\ x = Some(2)

\* Where the specification has a robot r end up that keeps moving: on the
\* edge it faces, its other coordinate and its facing as they were.
EdgeOf(r) ==
    IF r.facing = Some("NORTH") THEN [r EXCEPT !.y = Some(Height - 1)]
    ELSE IF r.facing = Some("SOUTH") THEN [r EXCEPT !.y = Some(0)]
    ELSE IF r.facing = Some("EAST") THEN [r EXCEPT !.x = Some(Width - 1)]
    ELSE [r EXCEPT !.x = Some(0)]

\* C34: a placed robot that is moved again and again, with no rotation and no
\* placement between, stands on the edge it faces after at most
\* max(Width, Height) - 1 moves, and every move after that leaves x, y and
\* facing unchanged.
C34_MovesReachEdge ==
    Robot_is_placed(moves.start) =>
        /\ moves.count >= max(Width, Height) - 1 =>
               (AtFacedEdge(robot) /\ robot = EdgeOf(moves.start))
        /\ (op.name = "move" /\ moves.count > max(Width, Height) - 1) =>
               robot = prev
        /\ (op.name = "move" /\ AtFacedEdge(prev)) => robot = prev

\* A robot placed at (0, 2) facing EAST has been moved five times: the fifth
\* move found it on the east edge and left it there.
C34_Witness ==
    /\ op.name = "move"
    /\ moves.start = Placed(0, 2, "EAST")
    /\ moves.count = Width
    /\ prev = Placed(Width - 1, 2, "EAST")
    /\ robot = prev

\* The robot has all three of x, y and facing.
Placed_now == x # None /\ y # None /\ facing # None

\* C35: in every reachable state, also after a reset, get_position() returns
\* the pair (x, y) of the current coordinates when the robot is placed and
\* None otherwise, and get_facing() returns the current facing when the robot
\* is placed and None otherwise; neither changes the robot.
C35_Getters ==
    /\ op.name = "get_position" =>
           /\ ~ret.raised
           /\ robot = prev
           /\ Placed_now => ret.value = Some(<<Val(x), Val(y)>>)
           /\ ~Placed_now => ret.value = None
    /\ op.name = "get_facing" =>
           /\ ~ret.raised
           /\ robot = prev
           /\ Placed_now => ret.value = facing
           /\ ~Placed_now => ret.value = None

\* get_position() has answered (1, 3) for a robot standing at x = 1, y = 3.
C35_Witness ==
    /\ op.name = "get_position"
    /\ x = Some(1)
    /\ y = Some(3)
    /\ ret.value = Some(<<1, 3>>)

\* C36: after each command of a sequence of PLACE x,y,F, MOVE, LEFT, RIGHT and
\* REPORT with integer coordinates, given to the Table of src/robot.py and to
\* the backend through its HTTP layer, both robots hold the same x, y and
\* facing; a command before the first successful placement that is not
\* itself a successful placement changes nothing in either.
C36_SameState ==
    /\ table = robot
    /\ (op.name = "both" /\ ~Robot_is_placed(prev)
            /\ ~(/\ op.args[1].request.name = "POST /api/robot/place"
                 /\ ValidPlacement(op.args[1].request.args))) =>
           (robot = prev /\ table = prev /\ ~Robot_is_placed(robot))

\* MOVE has been given to both with the robots at (1, 2) facing EAST: the
\* backend answered 200, the Table "Move successful.", and both are at (2, 2).
C36_Witness ==
    /\ op.name = "both"
    /\ op.args[1].line = <<"MOVE">>
    /\ prev = Placed(1, 2, "EAST")
    /\ ret.backend.status = 200
    /\ ret.legacy = Returned(<<"Move successful.">>)
    /\ table = Placed(2, 2, "EAST")
    /\ robot = Placed(2, 2, "EAST")

\* C37: in the Table of src/robot.py, MOVE, LEFT, RIGHT and REPORT before any
\* successful PLACE return "Invalid command.", which none of the robot's
\* move, left, right and report produces, and leave the robot unplaced; a
\* PLACE whose coordinates are out of range or whose facing is unknown returns
\* "Invalid placement." and leaves the robot as it was.
C37_LegacyRefusals ==
    op.name = "process_command" =>
        /\ (~Robot_is_placed(prev)
                /\ op.args[1] \in {<<"MOVE">>, <<"LEFT">>, <<"RIGHT">>,
                                   <<"REPORT">>, <<" ", "MOVE", " ">>}) =>
               /\ ~ret.raised
               /\ ret.value = <<"Invalid command.">>
               /\ robot = prev
               /\ ~Robot_is_placed(robot)
        /\ \A px \in CoordInputs, py \in CoordInputs, pf \in FacingInputs :
               (op.args[1] = PlaceCommand(px, py, pf).line
                    /\ ~ValidPlacement(<<px, py, pf>>)) =>
                   /\ ~ret.raised
                   /\ ret.value = <<"Invalid placement.">>
                   /\ robot = prev

\* LEFT has been typed before any PLACE and answered with "Invalid command.".
C37_Witness ==
    /\ op.name = "process_command"
    /\ op.args[1] = <<"LEFT">>
    /\ prev = Robot_init
    /\ robot = Robot_init
    /\ ret = Returned(<<"Invalid command.">>)

\* The requests that dispatch has given a request_id.
Identified == {i \in 1..Len(middleware.tasks) : Dispatched(i).request_id # None}

\* C38: _request_counter has increased by exactly one for every request that
\* dispatch has counted, the i-th request having the number i; no two requests
\* of the process have the same request_id, within one second of time.time()
\* in particular; and the X-Request-ID header of a response is the request_id
\* of its own request, whatever was handled while it awaited call_next.
C38_RequestIds ==
    /\ middleware.request_counter =
           Cardinality({i \in 1..Len(middleware.tasks) :
                            Dispatched(i).pc \notin {"load", "store"}})
    /\ \A i \in Identified :
           /\ Dispatched(i).request_id =
                  Some(RequestId(Dispatched(i).second, Dispatched(i).counter))
           /\ \A j \in Identified :
                  i # j => Dispatched(i).request_id # Dispatched(j).request_id
    /\ \A i \in 1..Len(middleware.tasks) :
           Dispatched(i).pc = "done" =>
               /\ Dispatched(i).header = Dispatched(i).request_id
               /\ Dispatched(i).header # None

\* Two requests of the same second: the first awaited call_next while the
\* second was given "0-2", and its response still carries "0-1".
C38_Witness ==
    /\ Len(middleware.tasks) >= 2
    /\ Dispatched(1).pc = "done"
    /\ Dispatched(1).header = Some(<<"0", "-", "1">>)
    /\ Dispatched(1).seen = 2
    /\ Dispatched(2).request_id = Some(<<"0", "-", "2">>)

====
